---- MODULE Spec2Model ----
(***************************************************************************)
(* A model of the reactive settings-state engine of userscript-config      *)
(* (src/userscript-config.js, class UserScriptConfig): the in-memory value *)
(* store, the group states, the validation state, the dialog (the part of  *)
(* the DOM the class reads and writes), the keyboard listener and the two  *)
(* persistence backends.                                                   *)
(*                                                                         *)
(* JavaScript values are tagged records, so that strict equality (===) is  *)
(* record equality and String(x) is a change of tag.  A JavaScript Map is  *)
(* a sequence of entries in insertion order.  Every handler is a function  *)
(* from a session state (a record of all the variables) to a session       *)
(* state; an action applies one handler to the current state.              *)
(***************************************************************************)
EXTENDS Naturals, Sequences, FiniteSets

VARIABLES
    config,            \* the configuration object given to the constructor
    gmPresent,         \* typeof GM_setValue / GM_getValue === 'function'
    isInitialized,     \* this.isInitialized
    storageFns,        \* this.setValueIntoStorage / this.getValueFromStorage
    values,            \* this.values (Map)
    groupStates,       \* this.groupStates (Map)
    validationState,   \* this.validationState (Map)
    currentDialog,     \* this.currentDialog and the elements under it
    keyboardHandler,   \* this.keyboardHandler is set
    listeners,         \* keydown listeners of this session on document
    dialogsInBody,     \* dialog elements of this session under document.body
    gmStore,           \* the userscript manager's store (GM_setValue)
    localStorage,      \* window.localStorage
    other,             \* a second session of the page, over the same stores
    op,                \* the operation that produced this state
    log                \* storage writes and callbacks of that operation

vars == <<config, gmPresent, isInitialized, storageFns, values, groupStates,
          validationState, currentDialog, keyboardHandler, listeners,
          dialogsInBody, gmStore, localStorage, other, op, log>>

(***************************************************************************)
(* JavaScript values                                                       *)
(***************************************************************************)
Bool(b) == [t |-> "boolean", v |-> IF b THEN "true" ELSE "false"]
Str(s) == [t |-> "string", v |-> s]
Undefined == [t |-> "undefined", v |-> "undefined"]
JTrue == Bool(TRUE)
JFalse == Bool(FALSE)

\* String(x), the conversion localStorage.setItem and input.value apply
JsString(x) == Str(x.v)

\* the truthiness of x in a condition
Truthy(x) ==
    CASE x.t = "boolean" -> x.v = "true"
      [] x.t = "string" -> x.v # ""
      [] OTHER -> FALSE

(***************************************************************************)
(* JavaScript Map: entries in insertion order                              *)
(***************************************************************************)
EmptyMap == <<>>
MapKeys(m) == {m[i].k : i \in DOMAIN m}
MapHas(m, key) == key \in MapKeys(m)
MapGet(m, key) ==
    IF MapHas(m, key)
    THEN m[CHOOSE i \in DOMAIN m : m[i].k = key].v
    ELSE Undefined
MapSet(m, key, val) ==
    IF MapHas(m, key)
    THEN [i \in DOMAIN m |-> IF m[i].k = key THEN [k |-> key, v |-> val] ELSE m[i]]
    ELSE Append(m, [k |-> key, v |-> val])

\* Array.prototype.forEach / Map.prototype.forEach as a left fold
RECURSIVE ForEach(_, _, _)
ForEach(F(_, _), s, seq) ==
    IF seq = <<>> THEN s ELSE ForEach(F, F(s, Head(seq)), Tail(seq))

(***************************************************************************)
(* Configurations.  A setting's validationRegex, groupId and enabledIf and *)
(* a group's collapsedIf and expanded are optional in the source; "" ,     *)
(* NoCond and Undefined stand for a missing property.                      *)
(***************************************************************************)
NoCond == [otherElementId |-> "", value |-> Undefined]
Cond(id, val) == [otherElementId |-> id, value |-> val]

Setting(id, type, def, regex, enabledIf, groupId, options) ==
    [id |-> id, type |-> type, defaultValue |-> def, validationRegex |-> regex,
     enabledIf |-> enabledIf, groupId |-> groupId, options |-> options]

Group(id, expanded, collapsedIf) ==
    [id |-> id, expanded |-> expanded, collapsedIf |-> collapsedIf]

LowerThree == "^[a-z]{3,}$"

\* the schema of spec section 8: checkbox A, textbox B enabled when A is
\* checked, with a group remembered in storage and a group collapsed by A
ScenarioSettings ==
    << Setting("A", "checkbox", JFalse, "", NoCond, "G", <<>>),
       Setting("B", "textbox", Str(""), LowerThree, Cond("A", JTrue), "H", <<>>) >>

ScenarioGroups ==
    << Group("G", Undefined, NoCond),
       Group("H", JFalse, Cond("A", JFalse)) >>

ConfigScenario ==
    [configId |-> "cfg", settings |-> ScenarioSettings, groups |-> ScenarioGroups,
     saveButtonCSSClass |-> ""]

\* the same schema with a custom class name for the Save button
ConfigCustomSave ==
    [configId |-> "cfg", settings |-> ScenarioSettings, groups |-> <<>>,
     saveButtonCSSClass |-> "my-save"]

\* a radio group enabled by a checkbox, and a group collapsed by default
ConfigRadio ==
    [configId |-> "cfg",
     settings |-> << Setting("A", "checkbox", JTrue, "", NoCond, "", <<>>),
                     Setting("R", "radio", Str("x"), "", Cond("A", JTrue), "G",
                             <<"x", "y">>) >>,
     groups |-> << Group("G", JFalse, NoCond) >>,
     saveButtonCSSClass |-> ""]

\* a password with a pattern and a dropdown, not grouped
ConfigKinds ==
    [configId |-> "cfg",
     settings |-> << Setting("P", "password", Str("abc"), LowerThree, NoCond, "", <<>>),
                     Setting("D", "dropdown", Str("y"), "", NoCond, "", <<"x", "y">>) >>,
     groups |-> <<>>,
     saveButtonCSSClass |-> ""]

Configs == {ConfigScenario, ConfigCustomSave, ConfigRadio, ConfigKinds}

\* what a user can type into a textbox or a password input
TextValues == {"", "abc", "true"}

HasCond(c) == c # NoCond
FindSetting(cfg, id) ==
    LET hits == {i \in DOMAIN cfg.settings : cfg.settings[i].id = id}
    IN  IF hits = {} THEN <<>> ELSE <<cfg.settings[CHOOSE i \in hits : \A j \in hits : i <= j]>>
SettingIds(cfg) == {cfg.settings[i].id : i \in DOMAIN cfg.settings}
GroupIds(cfg) == {cfg.groups[i].id : i \in DOMAIN cfg.groups}

\* new RegExp(regex).test(str), for the patterns the configurations use.
\* Every string of the model is made of lower-case letters, so [a-z]
\* accepts each of its characters and the pattern tests the length.
RegExpTest(regex, str) ==
    CASE regex = LowerThree -> Len(str) >= 3
      [] OTHER -> TRUE

(***************************************************************************)
(* The session state: one field per variable of the session (op and other  *)
(* excepted), and the keys the backend refuses during an operation.        *)
(***************************************************************************)
NoDialog == [open |-> FALSE]
EmptyStore == [key \in {} |-> Undefined]
StorePut(store, key, val) ==
    [x \in DOMAIN store \cup {key} |-> IF x = key THEN val ELSE store[x]]

Cur ==
    [config |-> config, gmPresent |-> gmPresent, isInitialized |-> isInitialized,
     storageFns |-> storageFns, values |-> values, groupStates |-> groupStates,
     validationState |-> validationState, currentDialog |-> currentDialog,
     keyboardHandler |-> keyboardHandler, listeners |-> listeners,
     dialogsInBody |-> dialogsInBody,
     gmStore |-> gmStore, localStorage |-> localStorage,
     readFails |-> {}, writeFails |-> {}, log |-> <<>>]

WriteEvent(key, raw) == [e |-> "write", k |-> key, v |-> raw]
CallEvent(name) == [e |-> "call", k |-> name, v |-> Undefined]
ErrorEvent(key) == [e |-> "error", k |-> key, v |-> Undefined]

\* console.error(...) in a catch block
consoleError(s, key) == [s EXCEPT !.log = Append(@, ErrorEvent(key))]

\* the backend throws when it is asked for this key (storage denied, quota
\* exceeded); readFails and writeFails are the keys it refuses during the
\* operation under way
ReadThrows(s, key) == key \in s.readFails
WriteThrows(s, key) == key \in s.writeFails

\* what a callback finds when it looks at the session and its dialog
Observed(s) ==
    [isInitialized |-> s.isInitialized, values |-> s.values,
     groupStates |-> s.groupStates, validationState |-> s.validationState,
     currentDialog |-> s.currentDialog]
SeenEvent(s, name) == [e |-> "seen", k |-> name, v |-> Observed(s)]

\* this.callbacks.X && typeof this.callbacks.X === 'function': X()
\* (every callback is supplied and only observes: the log keeps what it
\* finds, then the call)
Callback(s, name) == [s EXCEPT !.log = @ \o <<SeenEvent(s, name), CallEvent(name)>>]

(***************************************************************************)
(* Persistence                                                             *)
(***************************************************************************)
setupStorageFunctions(s) ==
    [s EXCEPT !.storageFns = IF s.gmPresent THEN "GM" ELSE "localStorage"]

\* localStorage.setItem stores String(value); GM_setValue keeps the type
setValueIntoStorage(s, key, value) ==
    IF s.storageFns = "GM"
    THEN [s EXCEPT !.gmStore = StorePut(@, key, value),
                   !.log = Append(@, WriteEvent(key, value))]
    ELSE [s EXCEPT !.localStorage = StorePut(@, key, JsString(value)),
                   !.log = Append(@, WriteEvent(key, JsString(value)))]

\* mutant: the browser store's strings are returned as they were stored
getValueFromStorageRaw(s, key, defaultValue) ==
    IF s.storageFns = "GM"
    THEN IF key \in DOMAIN s.gmStore THEN s.gmStore[key] ELSE defaultValue
    ELSE IF key \notin DOMAIN s.localStorage THEN defaultValue
         ELSE s.localStorage[key]

getValueFromStorage(s, key, defaultValue) ==
    IF s.storageFns = "GM"
    THEN IF key \in DOMAIN s.gmStore THEN s.gmStore[key] ELSE defaultValue
    ELSE IF key \notin DOMAIN s.localStorage THEN defaultValue
         ELSE LET storedValue == s.localStorage[key]
              IN  IF storedValue = Str("true") \/ storedValue = Str("false")
                  THEN Bool(storedValue = Str("true"))
                  ELSE storedValue

getStorageKey(s, settingId) == s.config.configId \o "." \o settingId
GroupStateKey(s, groupId) == getStorageKey(s, "groupState." \o groupId)

getFieldValue(s, id) == MapGet(s.values, id)

\* mutant: a group without a remembered state is expanded, whatever its
\* configuration says
shouldGroupBeExpandedByDefault(s, group) ==
    IF HasCond(group.collapsedIf)
    THEN Bool(getFieldValue(s, group.collapsedIf.otherElementId) # group.collapsedIf.value)
    ELSE getValueFromStorage(s, GroupStateKey(s, group.id), JTrue)

shouldGroupBeExpanded(s, group) ==
    IF HasCond(group.collapsedIf)
    THEN Bool(getFieldValue(s, group.collapsedIf.otherElementId) # group.collapsedIf.value)
    ELSE LET defaultExpanded == IF group.expanded = Undefined THEN JTrue ELSE group.expanded
         IN  getValueFromStorage(s, GroupStateKey(s, group.id), defaultExpanded)

\* mutant: a group without collapsedIf takes the state its configuration
\* gives it, whatever the store remembers
readGroupStatesFromConfig(s) ==
    ForEach(LAMBDA st, group :
                [st EXCEPT !.groupStates =
                               MapSet(@, group.id,
                                      IF HasCond(group.collapsedIf)
                                      THEN shouldGroupBeExpanded(st, group)
                                      ELSE IF group.expanded = Undefined THEN JTrue
                                           ELSE group.expanded)],
            s, s.config.groups)

readGroupStatesToConfig(s) ==
    ForEach(LAMBDA st, group :
                IF ~HasCond(group.collapsedIf) /\ ReadThrows(st, GroupStateKey(st, group.id))
                THEN [consoleError(st, GroupStateKey(st, group.id))
                         EXCEPT !.groupStates = MapSet(@, group.id, JTrue)]
                ELSE [st EXCEPT !.groupStates =
                                    MapSet(@, group.id, shouldGroupBeExpanded(st, group))],
            s, s.config.groups)

\* mutant: the loop over the settings has no try/catch, the first read that
\* throws ends it
readFromStoreUncaught(s) ==
    IF ~s.isInitialized THEN s
    ELSE readGroupStatesToConfig(
             ForEach(LAMBDA st, setting :
                         IF \E i \in DOMAIN st.log : st.log[i].e = "error" THEN st
                         ELSE IF ReadThrows(st, getStorageKey(st, setting.id))
                         THEN consoleError(st, getStorageKey(st, setting.id))
                         ELSE [st EXCEPT !.values =
                                 MapSet(@, setting.id,
                                        getValueFromStorage(st, getStorageKey(st, setting.id),
                                                            setting.defaultValue))],
                     s, s.config.settings))

readFromStore(s) ==
    IF ~s.isInitialized THEN s
    ELSE readGroupStatesToConfig(
             ForEach(LAMBDA st, setting :
                         IF ReadThrows(st, getStorageKey(st, setting.id))
                         THEN [consoleError(st, getStorageKey(st, setting.id))
                                  EXCEPT !.values = MapSet(@, setting.id, setting.defaultValue)]
                         ELSE [st EXCEPT !.values =
                                 MapSet(@, setting.id,
                                        getValueFromStorage(st, getStorageKey(st, setting.id),
                                                            setting.defaultValue))],
                     s, s.config.settings))

\* mutant: the loops have no try/catch, the first write that throws ends
\* the flush
writeToStorageUncaught(s) ==
    IF ~s.isInitialized THEN s
    ELSE LET Put(st, key, value) ==
                 IF \E i \in DOMAIN st.log : st.log[i].e = "error" THEN st
                 ELSE IF WriteThrows(st, key) THEN consoleError(st, key)
                 ELSE setValueIntoStorage(st, key, value)
             s1 == ForEach(LAMBDA st, entry : Put(st, getStorageKey(st, entry.k), entry.v),
                           s, s.values)
         IN  ForEach(LAMBDA st, entry : Put(st, GroupStateKey(st, entry.k), entry.v),
                     s1, s.groupStates)

writeToStorage(s) ==
    IF ~s.isInitialized THEN s
    ELSE LET s1 == ForEach(LAMBDA st, entry :
                               IF WriteThrows(st, getStorageKey(st, entry.k))
                               THEN consoleError(st, getStorageKey(st, entry.k))
                               ELSE setValueIntoStorage(st, getStorageKey(st, entry.k),
                                                        entry.v),
                           s, s.values)
         IN  ForEach(LAMBDA st, entry :
                         IF WriteThrows(st, GroupStateKey(st, entry.k))
                         THEN consoleError(st, GroupStateKey(st, entry.k))
                         ELSE setValueIntoStorage(st, GroupStateKey(st, entry.k), entry.v),
                     s1, s.groupStates)

\* mutant: the values are reset to what the store holds
resetToDefaultsFromStore(s) == readFromStore(s)

\* mutant: the defaults are written to the store at once
resetToDefaultsWrites(s) ==
    IF ~s.isInitialized THEN s
    ELSE writeToStorage(readGroupStatesToConfig(
             ForEach(LAMBDA st, setting :
                         [st EXCEPT !.values = MapSet(@, setting.id, setting.defaultValue)],
                     s, s.config.settings)))

resetToDefaults(s) ==
    IF ~s.isInitialized THEN s
    ELSE readGroupStatesToConfig(
             ForEach(LAMBDA st, setting :
                         [st EXCEPT !.values = MapSet(@, setting.id, setting.defaultValue)],
                     s, s.config.settings))

\* mutant: the value is stored whether or not init() has run
setFieldValueUnguarded(s, id, value) == [s EXCEPT !.values = MapSet(@, id, value)]

\* mutant: the group states are computed again from the new value
setFieldValueReevaluates(s, id, value) ==
    IF ~s.isInitialized THEN s
    ELSE readGroupStatesToConfig([s EXCEPT !.values = MapSet(@, id, value)])

setFieldValue(s, id, value) ==
    IF ~s.isInitialized THEN s
    ELSE [s EXCEPT !.values = MapSet(@, id, value)]

(***************************************************************************)
(* The dialog.  currentDialog holds, for an open dialog, what the class    *)
(* reads back from its elements: inputs[id] is what getInputValue returns, *)
(* disabled[id] the disabled property of getInputElementById(id),          *)
(* expanded[g] whether the group's content has the class 'expanded', and   *)
(* saveDisabled the disabled property of the Save button.                  *)
(***************************************************************************)
\* the groups createDialogStructure renders: those some setting belongs to
RenderedGroups(cfg) ==
    {g \in GroupIds(cfg) : \E i \in DOMAIN cfg.settings : cfg.settings[i].groupId = g}

Options(setting) == {setting.options[i] : i \in DOMAIN setting.options}

\* the state of an input element createInputElement has just built
FreshInputValue(setting) ==
    CASE setting.type = "checkbox" -> JFalse
      [] setting.type = "dropdown" ->
            IF setting.options = <<>> THEN Str("") ELSE Str(setting.options[1])
      [] OTHER -> Str("")

createDialogStructure(cfg) ==
    [open |-> TRUE,
     inputs |-> [id \in SettingIds(cfg) |-> FreshInputValue(FindSetting(cfg, id)[1])],
     disabled |-> [id \in SettingIds(cfg) |-> FALSE],
     expanded |-> [g \in RenderedGroups(cfg) |-> FALSE],
     saveDisabled |-> FALSE]

\* what the element holds after setInputValue(setting, value)
InputValueAfterSet(setting, value) ==
    CASE setting.type = "checkbox" -> Bool(value = Str("true") \/ value = JTrue)
      [] setting.type = "radio" ->
            IF value.t = "string" /\ value.v \in Options(setting) THEN value ELSE Str("")
      [] setting.type = "dropdown" ->
            IF Truthy(value) /\ value.v \in Options(setting) THEN JsString(value) ELSE Str("")
      [] OTHER -> JsString(value)

setInputValue(s, setting, value) ==
    IF ~s.currentDialog.open THEN s
    ELSE [s EXCEPT !.currentDialog.inputs[setting.id] = InputValueAfterSet(setting, value)]

getInputValue(s, setting) ==
    IF s.currentDialog.open THEN s.currentDialog.inputs[setting.id]
    ELSE IF setting.type = "checkbox" THEN JFalse ELSE Str("")

\* whether the user can operate the control: the disabled property reaches
\* an input or select element; on the container of a radio group it is an
\* ordinary property that disables nothing
ControlDisabled(s, setting) ==
    /\ s.currentDialog.open
    /\ setting.type # "radio"
    /\ s.currentDialog.disabled[setting.id]

setDialogGroupState(s, groupId, isExpanded) ==
    IF s.currentDialog.open /\ groupId \in DOMAIN s.currentDialog.expanded
    THEN [s EXCEPT !.currentDialog.expanded[groupId] = Truthy(isExpanded)]
    ELSE s

setDialogGroupStatesFromValues(s) ==
    ForEach(LAMBDA st, entry : setDialogGroupState(st, entry.k, entry.v), s, s.groupStates)

updateSettingsToDialog(s) ==
    IF ~s.currentDialog.open THEN s
    ELSE setDialogGroupStatesFromValues(
             ForEach(LAMBDA st, setting :
                         LET fieldValue == MapGet(st.values, setting.id)
                         IN  IF fieldValue # Undefined
                             THEN setInputValue(st, setting, fieldValue)
                             ELSE st,
                     s, s.config.settings))

updateSettingsFromDialog(s) ==
    IF ~s.currentDialog.open THEN s
    ELSE ForEach(LAMBDA st, setting :
                     [st EXCEPT !.values = MapSet(@, setting.id, getInputValue(st, setting))],
                 s, s.config.settings)

(***************************************************************************)
(* Validation                                                              *)
(***************************************************************************)
AllValid(s) == \A i \in DOMAIN s.validationState : s.validationState[i].v

\* the Save button is found by its default class name only
SaveButtonClass(cfg) ==
    IF cfg.saveButtonCSSClass = "" THEN "usc-save-button" ELSE cfg.saveButtonCSSClass

updateSaveButtonState(s) ==
    IF s.currentDialog.open /\ SaveButtonClass(s.config) = "usc-save-button"
    THEN [s EXCEPT !.currentDialog.saveDisabled = ~AllValid(s)]
    ELSE s

setupValidationState(s) ==
    ForEach(LAMBDA st, setting : [st EXCEPT !.validationState = MapSet(@, setting.id, TRUE)],
            s, s.config.settings)

\* mutant: an input left empty is not tested against the pattern
validateInputSkipsEmpty(s, setting) ==
    IF setting.validationRegex = "" THEN s
    ELSE LET value == getInputValue(s, setting)
             isValid == \/ JsString(value).v = ""
                        \/ RegExpTest(setting.validationRegex, JsString(value).v)
                        \/ s.currentDialog.disabled[setting.id]
         IN  updateSaveButtonState(
                 [s EXCEPT !.validationState = MapSet(@, setting.id, isValid)])

\* the settings of the configurations that carry a validationRegex are
\* textboxes and passwords, whose element document.getElementById finds
validateInput(s, setting) ==
    IF setting.validationRegex = "" THEN s
    ELSE LET value == getInputValue(s, setting)
             isValid == \/ RegExpTest(setting.validationRegex, JsString(value).v)
                        \/ s.currentDialog.disabled[setting.id]
         IN  updateSaveButtonState(
                 [s EXCEPT !.validationState = MapSet(@, setting.id, isValid)])

NeedsValidation(setting) ==
    /\ setting.validationRegex # ""
    /\ setting.type \in {"textbox", "password"}

setupValidation(s) ==
    updateSaveButtonState(
        ForEach(LAMBDA st, setting :
                    IF NeedsValidation(setting) THEN validateInput(st, setting) ELSE st,
                s, s.config.settings))

(***************************************************************************)
(* Conditional logic                                                       *)
(***************************************************************************)
\* mutant: a field that is disabled keeps what the user typed
updateConditionalStateKeepsValue(s, setting) ==
    IF ~HasCond(setting.enabledIf) THEN s
    ELSE LET found == FindSetting(s.config, setting.enabledIf.otherElementId)
         IN  IF found = <<>> \/ ~s.currentDialog.open THEN s
             ELSE validateInput(
                      [s EXCEPT !.currentDialog.disabled[setting.id] =
                                    getInputValue(s, found[1]) # setting.enabledIf.value],
                      setting)

\* mutant: the disabled property is set on the controlling element
updateConditionalStateOfController(s, setting) ==
    IF ~HasCond(setting.enabledIf) THEN s
    ELSE LET found == FindSetting(s.config, setting.enabledIf.otherElementId)
         IN  IF found = <<>> \/ ~s.currentDialog.open THEN s
             ELSE validateInput(
                      [s EXCEPT !.currentDialog.disabled[found[1].id] =
                                    getInputValue(s, found[1]) # setting.enabledIf.value],
                      setting)

updateConditionalStateForSetting(s, setting) ==
    IF ~HasCond(setting.enabledIf) THEN s
    ELSE LET found == FindSetting(s.config, setting.enabledIf.otherElementId)
         IN  IF found = <<>> THEN s
             ELSE LET dependentValue == getInputValue(s, found[1])
                      shouldEnable == dependentValue = setting.enabledIf.value
                  IN  IF ~s.currentDialog.open THEN s
                      ELSE LET s1 == [s EXCEPT !.currentDialog.disabled[setting.id] =
                                                    ~shouldEnable]
                               s2 == IF ~shouldEnable
                                     THEN setInputValue(s1, setting, setting.defaultValue)
                                     ELSE s1
                           IN  validateInput(s2, setting)

setupConditionalLogic(s) ==
    LET s1 == ForEach(LAMBDA st, setting :
                          IF HasCond(setting.enabledIf)
                          THEN updateConditionalStateForSetting(st, setting)
                          ELSE st,
                      s, s.config.settings)
    IN  ForEach(LAMBDA st, group :
                    IF HasCond(group.collapsedIf)
                    THEN setDialogGroupState(
                             st, group.id,
                             Bool(getFieldValue(st, group.collapsedIf.otherElementId)
                                  # group.collapsedIf.value))
                    ELSE st,
                s1, s.config.groups)

\* mutant: onSettingChanged is invoked before the dependent fields and
\* groups are updated
handleInputChangeNotifiesFirst(s, setting) ==
    LET s0 == Callback(s, "onSettingChanged")
        s1 == IF NeedsValidation(setting) THEN validateInput(s0, setting) ELSE s0
        s2 == ForEach(LAMBDA st, x :
                          IF HasCond(x.enabledIf) /\ x.enabledIf.otherElementId = setting.id
                          THEN updateConditionalStateForSetting(st, x)
                          ELSE st,
                      s1, s.config.settings)
    IN  ForEach(LAMBDA st, group :
                    IF /\ HasCond(group.collapsedIf)
                       /\ group.collapsedIf.otherElementId = setting.id
                    THEN setDialogGroupState(
                             st, group.id,
                             Bool(getInputValue(st, setting) # group.collapsedIf.value))
                    ELSE st,
                s2, s.config.groups)

\* mutant: every conditional field is evaluated again, not only the
\* fields controlled by the changed one
handleInputChangeCascades(s, setting) ==
    LET s1 == IF NeedsValidation(setting) THEN validateInput(s, setting) ELSE s
        s2 == ForEach(LAMBDA st, x :
                          IF HasCond(x.enabledIf)
                          THEN updateConditionalStateForSetting(st, x)
                          ELSE st,
                      s1, s.config.settings)
        s3 == ForEach(LAMBDA st, group :
                          IF /\ HasCond(group.collapsedIf)
                             /\ group.collapsedIf.otherElementId = setting.id
                          THEN setDialogGroupState(
                                   st, group.id,
                                   Bool(getInputValue(st, setting) # group.collapsedIf.value))
                          ELSE st,
                      s2, s.config.groups)
    IN  Callback(s3, "onSettingChanged")

handleInputChange(s, setting) ==
    LET s1 == IF NeedsValidation(setting) THEN validateInput(s, setting) ELSE s
        s2 == ForEach(LAMBDA st, x :
                          IF HasCond(x.enabledIf) /\ x.enabledIf.otherElementId = setting.id
                          THEN updateConditionalStateForSetting(st, x)
                          ELSE st,
                      s1, s.config.settings)
        s3 == ForEach(LAMBDA st, group :
                          IF /\ HasCond(group.collapsedIf)
                             /\ group.collapsedIf.otherElementId = setting.id
                          THEN setDialogGroupState(
                                   st, group.id,
                                   Bool(getInputValue(st, setting) # group.collapsedIf.value))
                          ELSE st,
                      s2, s.config.groups)
    IN  Callback(s3, "onSettingChanged")

(***************************************************************************)
(* Session lifecycle                                                       *)
(***************************************************************************)
\* mutant: onSettingsLoaded is invoked before the store is read
initNotifiesFirst(s) ==
    readFromStore(Callback(setupValidationState(setupStorageFunctions(
                               [s EXCEPT !.isInitialized = TRUE])),
                           "onSettingsLoaded"))

init(s) ==
    Callback(readFromStore(setupValidationState(setupStorageFunctions(
                 [s EXCEPT !.isInitialized = TRUE]))),
             "onSettingsLoaded")

setupKeyboardHandlers(s) ==
    [s EXCEPT !.keyboardHandler = TRUE, !.listeners = @ + 1]

\* mutant: a dialog is opened before init()
openSettingsDialogUnguarded(s) ==
    LET removed == IF s.currentDialog.open
                   THEN [s EXCEPT !.dialogsInBody = @ - 1] ELSE s
    IN  Callback(
            setupValidation(setupKeyboardHandlers(setupConditionalLogic(
                updateSettingsToDialog(
                    [removed EXCEPT !.currentDialog = createDialogStructure(s.config),
                                    !.dialogsInBody = @ + 1])))),
            "onDialogOpened")

\* an existing dialog is removed from the document, its keydown listener
\* is not
openSettingsDialog(s) ==
    IF ~s.isInitialized THEN s
    ELSE LET removed == IF s.currentDialog.open
                        THEN [s EXCEPT !.dialogsInBody = @ - 1] ELSE s
         IN  Callback(
                 setupValidation(setupKeyboardHandlers(setupConditionalLogic(
                     updateSettingsToDialog(
                         [removed EXCEPT !.currentDialog = createDialogStructure(s.config),
                                         !.dialogsInBody = @ + 1])))),
                 "onDialogOpened")

\* mutant: closing the dialog saves what it shows
closeDialogSaves(s) ==
    LET s0 == writeToStorage(updateSettingsFromDialog(s))
        s1 == IF s0.keyboardHandler
              THEN [s0 EXCEPT !.keyboardHandler = FALSE, !.listeners = @ - 1]
              ELSE s0
        s2 == IF s1.currentDialog.open
              THEN [s1 EXCEPT !.currentDialog = NoDialog, !.dialogsInBody = @ - 1]
              ELSE s1
    IN  Callback(s2, "onDialogClosed")

closeDialog(s) ==
    LET s1 == IF s.keyboardHandler
              THEN [s EXCEPT !.keyboardHandler = FALSE, !.listeners = @ - 1]
              ELSE s
        s2 == IF s1.currentDialog.open
              THEN [s1 EXCEPT !.currentDialog = NoDialog, !.dialogsInBody = @ - 1]
              ELSE s1
    IN  Callback(s2, "onDialogClosed")

\* mutant: Cancel discards the edits by loading the stored values again
handleCancelReloads(s) == closeDialog(readFromStore(s))

handleCancel(s) == closeDialog(s)

\* mutant: onSettingsSaved is invoked before the values are written
handleSaveNotifiesFirst(s) ==
    closeDialog(writeToStorage(Callback(updateSettingsFromDialog(s), "onSettingsSaved")))

\* mutant: the values are written before they are taken from the dialog
handleSaveWritesFirst(s) ==
    closeDialog(Callback(updateSettingsFromDialog(writeToStorage(s)), "onSettingsSaved"))

handleSave(s) ==
    closeDialog(Callback(writeToStorage(updateSettingsFromDialog(s)), "onSettingsSaved"))

\* mutant: the new state of the group waits for the next commit
toggleGroupInMemory(s, groupId) ==
    setDialogGroupStatesFromValues(
        [s EXCEPT !.groupStates = MapSet(@, groupId, Bool(~s.currentDialog.expanded[groupId]))])

toggleGroup(s, groupId) ==
    LET isExpanded == s.currentDialog.expanded[groupId]
        newExpandedState == Bool(~isExpanded)
        s1 == [s EXCEPT !.groupStates = MapSet(@, groupId, newExpandedState)]
        s2 == IF WriteThrows(s1, GroupStateKey(s1, groupId))
              THEN consoleError(s1, GroupStateKey(s1, groupId))
              ELSE setValueIntoStorage(s1, GroupStateKey(s1, groupId), newExpandedState)
    IN  setDialogGroupStatesFromValues(s2)

\* a keydown of Escape runs every listener still registered, oldest first;
\* the first to run closes the dialog and removes the current listener
RECURSIVE Times(_, _, _)
Times(F(_), n, s) == IF n = 0 THEN s ELSE Times(F, n - 1, F(s))

escapeKeydown(s) ==
    LET leaked == s.listeners - (IF s.keyboardHandler THEN 1 ELSE 0)
    IN  Times(handleCancel, IF leaked > 0 THEN leaked ELSE 1, s)

(***************************************************************************)
(* Actions: the public methods, the events of the dialog, a page reload    *)
(***************************************************************************)
\* listeners an openSettingsDialog may leave registered on the document
MaxListeners == 2

Becomes(s, name, id) ==
    /\ config' = s.config
    /\ gmPresent' = s.gmPresent
    /\ isInitialized' = s.isInitialized
    /\ storageFns' = s.storageFns
    /\ values' = s.values
    /\ groupStates' = s.groupStates
    /\ validationState' = s.validationState
    /\ currentDialog' = s.currentDialog
    /\ keyboardHandler' = s.keyboardHandler
    /\ listeners' = s.listeners
    /\ dialogsInBody' = s.dialogsInBody
    /\ gmStore' = s.gmStore
    /\ localStorage' = s.localStorage
    /\ log' = s.log
    /\ op' = [name |-> name, id |-> id]
    /\ other' = other

\* the values a caller or a user may give a setting of this type
ValuesOf(setting) ==
    CASE setting.type = "checkbox" -> {JTrue, JFalse}
      [] setting.type \in {"radio", "dropdown"} -> {Str(o) : o \in Options(setting)}
      [] OTHER -> {Str(x) : x \in TextValues}

\* the state the constructor leaves, over the stores of the page
constructor(cfg, gm, gmS, ls) ==
    [config |-> cfg, gmPresent |-> gm, isInitialized |-> FALSE, storageFns |-> "null",
     values |-> EmptyMap, groupStates |-> EmptyMap, validationState |-> EmptyMap,
     currentDialog |-> NoDialog, keyboardHandler |-> FALSE, listeners |-> 0,
     dialogsInBody |-> 0,
     gmStore |-> gmS, localStorage |-> ls,
     readFails |-> {}, writeFails |-> {}, log |-> <<>>]

Starts(s) ==
    /\ config = s.config
    /\ gmPresent = s.gmPresent
    /\ isInitialized = s.isInitialized
    /\ storageFns = s.storageFns
    /\ values = s.values
    /\ groupStates = s.groupStates
    /\ validationState = s.validationState
    /\ currentDialog = s.currentDialog
    /\ keyboardHandler = s.keyboardHandler
    /\ listeners = s.listeners
    /\ dialogsInBody = s.dialogsInBody
    /\ gmStore = s.gmStore
    /\ localStorage = s.localStorage
    /\ log = s.log
    /\ op = [name |-> "constructor", id |-> ""]

\* no second session on the page: a session without settings that never acts
NoSession ==
    constructor([configId |-> "none", settings |-> <<>>, groups |-> <<>>,
                 saveButtonCSSClass |-> ""],
                FALSE, EmptyStore, EmptyStore)

Init ==
    /\ \E cfg \in Configs, gm \in BOOLEAN :
          Starts(constructor(cfg, gm, EmptyStore, EmptyStore))
    /\ other = NoSession

CallInit == Becomes(init(Cur), "init", "")

CallReadFromStore == Becomes(readFromStore(Cur), "readFromStore", "")

CallWriteToStorage == Becomes(writeToStorage(Cur), "writeToStorage", "")

CallResetToDefaults == Becomes(resetToDefaults(Cur), "resetToDefaults", "")

CallSetFieldValue ==
    \E i \in DOMAIN config.settings : \E x \in ValuesOf(config.settings[i]) :
        Becomes(setFieldValue(Cur, config.settings[i].id, x), "setFieldValue",
                config.settings[i].id)

CallOpenSettingsDialog ==
    /\ currentDialog.open => listeners < MaxListeners
    /\ Becomes(openSettingsDialog(Cur), "openSettingsDialog", "")

CallCloseDialog == Becomes(closeDialog(Cur), "closeDialog", "")

\* the user changes a control he can operate; its input or change event
\* runs handleInputChange
UserEdit ==
    /\ currentDialog.open
    /\ \E i \in DOMAIN config.settings :
         LET setting == config.settings[i]
         IN  /\ ~ControlDisabled(Cur, setting)
             /\ \E x \in ValuesOf(setting) :
                  /\ x # currentDialog.inputs[setting.id]
                  /\ Becomes(handleInputChange(
                                 [Cur EXCEPT !.currentDialog.inputs[setting.id] = x], setting),
                             "edit", setting.id)

\* a disabled button receives no click
ClickSave ==
    /\ currentDialog.open
    /\ ~currentDialog.saveDisabled
    /\ Becomes(handleSave(Cur), "handleSave", "")

ClickCancel ==
    /\ currentDialog.open
    /\ Becomes(handleCancel(Cur), "handleCancel", "")

PressEscape ==
    /\ listeners > 0
    /\ Becomes(escapeKeydown(Cur), "escape", "")

ClickGroupHeader ==
    /\ currentDialog.open
    /\ \E g \in DOMAIN currentDialog.expanded :
         Becomes(toggleGroup(Cur, g), "toggleGroup", g)

\* the page is loaded again: a new document, a new session object over
\* the same stores
Reload ==
    /\ op.name # "constructor"
    /\ Becomes(constructor(config, gmPresent, gmStore, localStorage), "constructor", "")

Next ==
    \/ CallInit
    \/ CallReadFromStore
    \/ CallWriteToStorage
    \/ CallResetToDefaults
    \/ CallSetFieldValue
    \/ CallOpenSettingsDialog
    \/ CallCloseDialog
    \/ UserEdit
    \/ ClickSave
    \/ ClickCancel
    \/ PressEscape
    \/ ClickGroupHeader
    \/ Reload

Spec == Init /\ [][Next]_vars

(***************************************************************************)
(* The same operations over a backend that throws for some keys of the     *)
(* namespace while the operation runs                                      *)
(***************************************************************************)
NamespaceKeys(s) ==
    {getStorageKey(s, id) : id \in SettingIds(s.config)}
        \cup {GroupStateKey(s, g) : g \in GroupIds(s.config)}

Refusals(s) == SUBSET NamespaceKeys(s) \ {{}}

InitStorageFails ==
    \E rf \in Refusals(Cur) :
        Becomes(init([Cur EXCEPT !.readFails = rf]), "init", "")

ResetStorageFails ==
    \E rf \in Refusals(Cur) :
        Becomes(resetToDefaults([Cur EXCEPT !.readFails = rf]), "resetToDefaults", "")

SaveStorageFails ==
    /\ currentDialog.open
    /\ ~currentDialog.saveDisabled
    /\ \E wf \in Refusals(Cur) :
         Becomes(handleSave([Cur EXCEPT !.writeFails = wf]), "handleSave", "")

ToggleStorageFails ==
    /\ currentDialog.open
    /\ \E g \in DOMAIN currentDialog.expanded : \E wf \in Refusals(Cur) :
         Becomes(toggleGroup([Cur EXCEPT !.writeFails = wf], g), "toggleGroup", g)

NextFaults ==
    \/ Next
    \/ InitStorageFails
    \/ ResetStorageFails
    \/ SaveStorageFails
    \/ ToggleStorageFails

\* two fields and a group whose remembered state is read from the store
InitFaults ==
    /\ \E gm \in BOOLEAN : Starts(constructor(ConfigRadio, gm, EmptyStore, EmptyStore))
    /\ other = NoSession

SpecFaults == InitFaults /\ [][NextFaults]_vars

(***************************************************************************)
(* Configurations the constructor accepts although they are malformed      *)
(***************************************************************************)
\* enabledIf and collapsedIf name settings that do not exist
ConfigDangling ==
    [configId |-> "cfg",
     settings |-> << Setting("A", "checkbox", JFalse, "", NoCond, "G", <<>>),
                     Setting("B", "textbox", Str(""), LowerThree, Cond("Z", JTrue), "G",
                             <<>>) >>,
     groups |-> << Group("G", Undefined, Cond("Y", JFalse)) >>,
     saveButtonCSSClass |-> ""]

\* a dropdown without options
ConfigNoChoices ==
    [configId |-> "cfg",
     settings |-> << Setting("A", "checkbox", JFalse, "", NoCond, "G", <<>>),
                     Setting("D", "dropdown", Str(""), "", NoCond, "G", <<>>) >>,
     groups |-> << Group("G", Undefined, NoCond) >>,
     saveButtonCSSClass |-> ""]

\* a setting and a group with the same id
ConfigCollision ==
    [configId |-> "cfg",
     settings |-> << Setting("G", "checkbox", JFalse, "", NoCond, "G", <<>>),
                     Setting("T", "textbox", Str("abc"), "", NoCond, "G", <<>>) >>,
     groups |-> << Group("G", JFalse, NoCond) >>,
     saveButtonCSSClass |-> ""]

MalformedConfigs == {ConfigDangling, ConfigNoChoices, ConfigCollision}

InitMalformed ==
    /\ \E cfg \in MalformedConfigs, gm \in BOOLEAN :
          Starts(constructor(cfg, gm, EmptyStore, EmptyStore))
    /\ other = NoSession

SpecMalformed == InitMalformed /\ [][Next]_vars

(***************************************************************************)
(* A pattern on a field that is not a textbox or a password                *)
(***************************************************************************)
\* a dropdown with a validationRegex, enabled when checkbox A is checked
ConfigPatternKinds ==
    [configId |-> "cfg",
     settings |-> << Setting("A", "checkbox", JTrue, "", NoCond, "G", <<>>),
                     Setting("D", "dropdown", Str("abc"), LowerThree, Cond("A", JTrue), "G",
                             <<"abc", "x">>) >>,
     groups |-> << Group("G", Undefined, NoCond) >>,
     saveButtonCSSClass |-> ""]

InitKinds ==
    /\ \E gm \in BOOLEAN : Starts(constructor(ConfigPatternKinds, gm, EmptyStore, EmptyStore))
    /\ other = NoSession

SpecKinds == InitKinds /\ [][Next]_vars

(***************************************************************************)
(* Fields that depend on fields that depend on fields, in both orders of   *)
(* declaration, and conditions whose required value is a string            *)
(***************************************************************************)
\* A enables B, B enables C
ConfigChain ==
    [configId |-> "cfg",
     settings |-> << Setting("A", "checkbox", JTrue, "", NoCond, "G", <<>>),
                     Setting("B", "checkbox", JFalse, "", Cond("A", JTrue), "G", <<>>),
                     Setting("C", "dropdown", Str("x"), "", Cond("B", JTrue), "G",
                             <<"x", "y">>) >>,
     groups |-> << Group("G", Undefined, NoCond) >>,
     saveButtonCSSClass |-> ""]

\* the same fields, C declared before the field that controls it
ConfigChainReversed ==
    [configId |-> "cfg",
     settings |-> << Setting("A", "checkbox", JTrue, "", NoCond, "G", <<>>),
                     Setting("C", "dropdown", Str("x"), "", Cond("B", JTrue), "G",
                             <<"x", "y">>),
                     Setting("B", "checkbox", JFalse, "", Cond("A", JTrue), "G", <<>>) >>,
     groups |-> << Group("G", Undefined, NoCond) >>,
     saveButtonCSSClass |-> ""]

\* a checkbox compared with the strings "true" and "false"
ConfigStringCond ==
    [configId |-> "cfg",
     settings |-> << Setting("A", "checkbox", JTrue, "", NoCond, "", <<>>),
                     Setting("B", "textbox", Str(""), "", Cond("A", Str("true")), "H",
                             <<>>) >>,
     groups |-> << Group("H", Undefined, Cond("A", Str("false"))) >>,
     saveButtonCSSClass |-> ""]

DependencyConfigs == {ConfigChain, ConfigChainReversed, ConfigStringCond}

InitDependencies ==
    /\ \E cfg \in DependencyConfigs, gm \in BOOLEAN :
          Starts(constructor(cfg, gm, EmptyStore, EmptyStore))
    /\ other = NoSession

SpecDependencies == InitDependencies /\ [][Next]_vars

(***************************************************************************)
(* Two sessions on one page.  The second is driven through its public      *)
(* methods; it has its own fields and shares the stores.                   *)
(***************************************************************************)
ConfigApp ==
    [configId |-> "app",
     settings |-> << Setting("A", "checkbox", JFalse, "", NoCond, "G", <<>>) >>,
     groups |-> << Group("G", Undefined, NoCond) >>,
     saveButtonCSSClass |-> ""]

\* a configuration identifier may be any string
ConfigAppGroupState ==
    [configId |-> "app.groupState",
     settings |-> << Setting("G", "checkbox", JTrue, "", NoCond, "", <<>>) >>,
     groups |-> <<>>,
     saveButtonCSSClass |-> ""]

ConfigTool ==
    [configId |-> "tool",
     settings |-> << Setting("G", "checkbox", JTrue, "", NoCond, "", <<>>) >>,
     groups |-> <<>>,
     saveButtonCSSClass |-> ""]

ConfigPairs ==
    { <<ConfigApp, ConfigAppGroupState>>, <<ConfigAppGroupState, ConfigApp>>,
      <<ConfigApp, ConfigTool>> }

\* the second session as it stands over the stores of the page
OtherCur == [other EXCEPT !.gmStore = gmStore, !.localStorage = localStorage, !.log = <<>>]

OtherBecomes(s, name, id) ==
    /\ other' = s
    /\ gmStore' = s.gmStore
    /\ localStorage' = s.localStorage
    /\ log' = s.log
    /\ op' = [name |-> name, id |-> id]
    /\ UNCHANGED <<config, gmPresent, isInitialized, storageFns, values, groupStates,
                   validationState, currentDialog, keyboardHandler, listeners,
                   dialogsInBody>>

OtherInit == OtherBecomes(init(OtherCur), "other.init", "")

OtherSetFieldValue ==
    \E i \in DOMAIN other.config.settings : \E x \in ValuesOf(other.config.settings[i]) :
        /\ other.isInitialized
        /\ x # MapGet(other.values, other.config.settings[i].id)
        /\ OtherBecomes(setFieldValue(OtherCur, other.config.settings[i].id, x),
                        "other.setFieldValue", other.config.settings[i].id)

OtherWriteToStorage ==
    /\ other.isInitialized
    /\ OtherBecomes(writeToStorage(OtherCur), "other.writeToStorage", "")

OtherReadFromStore ==
    /\ other.isInitialized
    /\ OtherBecomes(readFromStore(OtherCur), "other.readFromStore", "")

InitTwo ==
    \E pair \in ConfigPairs, gm \in BOOLEAN :
        /\ Starts(constructor(pair[1], gm, EmptyStore, EmptyStore))
        /\ other = constructor(pair[2], gm, EmptyStore, EmptyStore)

NextTwo ==
    \/ Next
    \/ OtherInit
    \/ OtherSetFieldValue
    \/ OtherWriteToStorage
    \/ OtherReadFromStore

SpecTwo == InitTwo /\ [][NextTwo]_vars

(***************************************************************************)
(* The page around the session: the userscript manager's functions may     *)
(* appear or go between two calls, and a caller may pass setFieldValue any *)
(* identifier                                                              *)
(***************************************************************************)
\* typeof GM_setValue === 'function' && typeof GM_getValue === 'function'
\* changes its answer
HostApiChanges ==
    /\ gmPresent' = ~gmPresent
    /\ op' = [name |-> "hostApiChanges", id |-> ""]
    /\ log' = <<>>
    /\ UNCHANGED <<config, isInitialized, storageFns, values, groupStates,
                   validationState, currentDialog, keyboardHandler, listeners,
                   dialogsInBody, gmStore, localStorage, other>>

\* an identifier no setting of the configuration has
UnknownId == "X"

CallSetFieldValueUnknown ==
    Becomes(setFieldValue(Cur, UnknownId, Str("abc")), "setFieldValue", UnknownId)

NextEnvironment ==
    \/ Next
    \/ HostApiChanges
    \/ CallSetFieldValueUnknown

InitEnvironment ==
    /\ \E gm \in BOOLEAN : Starts(constructor(ConfigApp, gm, EmptyStore, EmptyStore))
    /\ other = NoSession

SpecEnvironment == InitEnvironment /\ [][NextEnvironment]_vars

(***************************************************************************)
(* Vocabulary of the properties                                            *)
(***************************************************************************)
\* canCommit(): the conjunction of the validation state
CanCommit == AllValid(Cur)

\* the store the bound backend writes, and the form a value has in it
BoundStore == IF storageFns = "GM" THEN gmStore ELSE localStorage
Serialized(x) == IF storageFns = "GM" THEN x ELSE JsString(x)
HasWrite(events) == \E i \in DOMAIN events : events[i].e = "write"
HasCall(events, name) ==
    \E i \in DOMAIN events : events[i].e = "call" /\ events[i].k = name
FieldKeys == {getStorageKey(Cur, id) : id \in SettingIds(config)}
StoresUnchanged == gmStore' = gmStore /\ localStorage' = localStorage
CancelOps == {"handleCancel", "escape", "closeDialog"}
Settings == {config.settings[i] : i \in DOMAIN config.settings}
Groups == {config.groups[i] : i \in DOMAIN config.groups}
Dependents == {f \in Settings : HasCond(f.enabledIf)}
GroupKeys == {GroupStateKey(Cur, g.id) : g \in Groups}
PlainGroups == {g \in Groups : ~HasCond(g.collapsedIf)}
DefaultExpanded(g) == IF g.expanded = Undefined THEN JTrue ELSE g.expanded
ErrorLogged(events, key) ==
    \E i \in DOMAIN events : events[i].e = "error" /\ events[i].k = key
\* the bound store holds for the key what it held
KeyUnchanged(key) ==
    /\ (key \in DOMAIN BoundStore') = (key \in DOMAIN BoundStore)
    /\ key \in DOMAIN BoundStore => BoundStore'[key] = BoundStore[key]
\* the key holds the value after the step unless its write threw, and then
\* it holds what it held
WrittenOrRefused(key, value) ==
    IF ErrorLogged(log', key)
    THEN KeyUnchanged(key)
    ELSE key \in DOMAIN BoundStore' /\ BoundStore'[key] = Serialized(value)
\* neither store has changed what it holds for the key
KeySame(key) ==
    /\ (key \in DOMAIN gmStore') = (key \in DOMAIN gmStore)
    /\ key \in DOMAIN gmStore => gmStore'[key] = gmStore[key]
    /\ (key \in DOMAIN localStorage') = (key \in DOMAIN localStorage)
    /\ key \in DOMAIN localStorage => localStorage'[key] = localStorage[key]
OtherOps == {"other.init", "other.setFieldValue", "other.writeToStorage",
             "other.readFromStore"}
\* the calls of a callback in a log, and what the callback found
Calls(events, name) == {i \in DOMAIN events : events[i] = CallEvent(name)}
Seen(events, name) ==
    {events[i].v : i \in {j \in DOMAIN events : events[j].e = "seen" /\ events[j].k = name}}
\* what a read of the field's key gives now
Persisted(f) == getValueFromStorage(Cur, getStorageKey(Cur, f.id), f.defaultValue)

\* C1: when canCommit() is false a commit writes nothing, invokes no
\* onSettingsSaved and leaves the dialog open
C1_InvalidCommitIsNoOp ==
    [][(op'.name = "handleSave" /\ ~CanCommit)
         => /\ ~HasWrite(log')
            /\ ~HasCall(log', "onSettingsSaved")
            /\ StoresUnchanged
            /\ currentDialog'.open]_vars

\* C2: a commit made with canCommit() true leaves under configId.id the
\* value the dialog held for every field, and under configId.groupState.g
\* the state the session held for every group, in the form the bound
\* backend stores it
C2_CommitStoresEveryEntry ==
    [][(op'.name = "handleSave" /\ CanCommit)
         => /\ \A f \in Settings :
                 /\ getStorageKey(Cur, f.id) \in DOMAIN BoundStore'
                 /\ BoundStore'[getStorageKey(Cur, f.id)]
                      = Serialized(currentDialog.inputs[f.id])
                 /\ MapGet(values', f.id) = currentDialog.inputs[f.id]
            /\ \A g \in Groups :
                 /\ GroupStateKey(Cur, g.id) \in DOMAIN BoundStore'
                 /\ BoundStore'[GroupStateKey(Cur, g.id)]
                      = Serialized(MapGet(groupStates, g.id))]_vars

\* a commit of the scenario with B enabled and filled in has happened
C2_Witness ==
    /\ op.name = "handleSave"
    /\ config = ConfigScenario
    /\ MapGet(values, "A") = JTrue
    /\ MapGet(values, "B") = Str("abc")
    /\ MapGet(groupStates, "G") = JFalse

\* C3: right after a commit, a new session initialized over the same stores
\* holds the values the committing session holds, with their types
C3_RoundTrip ==
    op.name = "handleSave"
        => init(constructor(config, gmPresent, gmStore, localStorage)).values = values

\* C4: a cancel (Cancel button, Escape, closeDialog) writes nothing, and the
\* content of a field's key changes only in a commit or a writeToStorage
C4_CancelWritesNothing ==
    [][/\ op'.name \in CancelOps => ~HasWrite(log') /\ StoresUnchanged
       /\ (\E key \in FieldKeys :
              \/ (key \in DOMAIN gmStore') # (key \in DOMAIN gmStore)
              \/ (key \in DOMAIN localStorage') # (key \in DOMAIN localStorage)
              \/ key \in DOMAIN gmStore /\ gmStore'[key] # gmStore[key]
              \/ key \in DOMAIN localStorage /\ localStorage'[key] # localStorage[key])
            => op'.name \in {"handleSave", "writeToStorage"}]_vars

\* a dialog in which the user made B invalid has been cancelled over a
\* store that holds committed values
C4_Witness ==
    /\ op.name \in {"handleCancel", "escape"}
    /\ ~CanCommit
    /\ FieldKeys \subseteq DOMAIN BoundStore

\* C5: a cancel leaves the value store as it was, and so does opening the
\* dialog again
C5_CancelKeepsValues ==
    [][op'.name \in CancelOps \cup {"openSettingsDialog"} => values' = values]_vars

\* a dialog was cancelled while the value store holds for A a value that
\* was set and never stored
C5_Witness ==
    /\ op.name \in {"handleCancel", "escape"}
    /\ config = ConfigScenario
    /\ MapGet(values, "A") = JTrue
    /\ getStorageKey(Cur, "A") \notin DOMAIN BoundStore

\* isFieldEnabled, isFieldValid and the value a field currently has: the
\* dialog's while it is open, otherwise the value store's and the rule of
\* enabledIf applied to it
FieldDisabled(f) == ControlDisabled(Cur, f)
IsFieldValid(id) ==
    \A i \in DOMAIN validationState : validationState[i].k = id => validationState[i].v
CurrentValue(id) ==
    IF currentDialog.open THEN currentDialog.inputs[id] ELSE getFieldValue(Cur, id)
IsFieldEnabled(f) ==
    IF currentDialog.open THEN ~FieldDisabled(f)
    ELSE HasCond(f.enabledIf)
            => getFieldValue(Cur, f.enabledIf.otherElementId) = f.enabledIf.value

\* C6: after a write to a controlling field c (setFieldValue, or an edit in
\* the open dialog) every field enabled when c is v is enabled exactly when
\* the value c now has is v
C6_EnabledIffControllerMatches ==
    [][op'.name \in {"setFieldValue", "edit"} /\ currentDialog'.open
         => \A f \in Dependents :
              f.enabledIf.otherElementId = op'.id
                => (~FieldDisabled(f)'
                      <=> (IF op'.name = "edit"
                           THEN currentDialog'.inputs[op'.id]
                           ELSE MapGet(values', op'.id)) = f.enabledIf.value)]_vars

C8_CanCommitIffAllEnabledMatch ==
    isInitialized
      => (~CanCommit
            <=> \E f \in Settings :
                  /\ f.validationRegex # ""
                  /\ IsFieldEnabled(f)
                  /\ ~RegExpTest(f.validationRegex, JsString(CurrentValue(f.id)).v))

\* C9: once initialized, a group collapsed when c is v is expanded, in the
\* group states and in the open dialog, exactly when the value of c is not v
C9_CollapsedIfDecidesExpansion ==
    isInitialized
      => \A g \in Groups :
           HasCond(g.collapsedIf)
             => LET expected == getFieldValue(Cur, g.collapsedIf.otherElementId)
                                  # g.collapsedIf.value
                IN  /\ MapGet(groupStates, g.id) = Bool(expected)
                    /\ currentDialog.open /\ g.id \in DOMAIN currentDialog.expanded
                         => currentDialog.expanded[g.id] = expected

\* C10: toggleGroup on a group without collapsedIf shows the group in the
\* other state, records that state and has written it under
\* configId.groupState.g when it returns; no field key is written
C10_ToggleFlipsAndPersists ==
    [][\A g \in Groups :
         (op' = [name |-> "toggleGroup", id |-> g.id] /\ ~HasCond(g.collapsedIf))
           => /\ currentDialog'.expanded[g.id] = ~currentDialog.expanded[g.id]
              /\ MapGet(groupStates', g.id) = Bool(~currentDialog.expanded[g.id])
              /\ GroupStateKey(Cur, g.id) \in DOMAIN BoundStore'
              /\ BoundStore'[GroupStateKey(Cur, g.id)]
                   = Serialized(Bool(~currentDialog.expanded[g.id]))
              /\ log' = <<WriteEvent(GroupStateKey(Cur, g.id),
                                     Serialized(Bool(~currentDialog.expanded[g.id])))>>]_vars

\* G was toggled while B was invalid and nothing had been committed
C10_Witness ==
    /\ op = [name |-> "toggleGroup", id |-> "G"]
    /\ config = ConfigScenario
    /\ ~CanCommit
    /\ FieldKeys \cap DOMAIN BoundStore = {}
    /\ BoundStore[GroupStateKey(Cur, "G")] = Serialized(JFalse)

\* C11: after init() over a store that holds no key of the namespace, every
\* field has its defaultValue and every group without collapsedIf has its
\* configured expanded, or true when none is configured
C11_InitOverEmptyStoreGivesDefaults ==
    (op.name = "init" /\ (FieldKeys \cup GroupKeys) \cap DOMAIN BoundStore = {})
      => /\ \A f \in Settings : MapGet(values, f.id) = f.defaultValue
         /\ \A g \in PlainGroups : MapGet(groupStates, g.id) = DefaultExpanded(g)

\* init() ran over an empty store with a group configured as collapsed
C11_Witness ==
    /\ op.name = "init"
    /\ config = ConfigRadio
    /\ BoundStore = EmptyStore
    /\ MapGet(groupStates, "G") = JFalse
    /\ MapGet(values, "R") = Str("x")

\* C12: init() completes whatever reads of field keys throw: it ends with
\* onSettingsLoaded and the session initialized, a field whose read threw
\* has its defaultValue, every other field has what its key holds, and
\* every group whose read did not throw has the state it is loaded with
C12_FailedFieldReadFallsBack ==
    op.name = "init"
      => /\ isInitialized
         /\ log # <<>> /\ log[Len(log)] = CallEvent("onSettingsLoaded")
         /\ \A f \in Settings :
              MapGet(values, f.id) =
                  IF ErrorLogged(log, getStorageKey(Cur, f.id))
                  THEN f.defaultValue
                  ELSE Persisted(f)
         /\ \A g \in Groups :
              ~ErrorLogged(log, GroupStateKey(Cur, g.id))
                => MapGet(groupStates, g.id) = shouldGroupBeExpanded(Cur, g)

\* the read of A threw while its key held false: A has its default, true,
\* and R, read after it, has the stored choice
C12_Witness ==
    /\ op.name = "init"
    /\ config = ConfigRadio
    /\ ErrorLogged(log, getStorageKey(Cur, "A"))
    /\ ~ErrorLogged(log, getStorageKey(Cur, "R"))
    /\ getStorageKey(Cur, "A") \in DOMAIN BoundStore
    /\ BoundStore[getStorageKey(Cur, "A")] = Serialized(JFalse)
    /\ MapGet(values, "A") = JTrue
    /\ MapGet(values, "R") = Str("y")

\* C13: when the read of a group's remembered state throws during init() or
\* resetToDefaults(), the group gets what a missing key gives: its
\* configured expanded, or true when none is configured
C13_FailedGroupReadFallsBack ==
    op.name \in {"init", "resetToDefaults"}
      => \A g \in PlainGroups :
           ErrorLogged(log, GroupStateKey(Cur, g.id))
             => MapGet(groupStates, g.id) = DefaultExpanded(g)

\* C14: a commit over a backend that throws for some keys still writes
\* every other field and group key, leaves the refused keys as they were,
\* invokes onSettingsSaved, closes the dialog and holds the dialog's values
\* and the group states it held; a toggleGroup whose write throws still
\* records and shows the new state and leaves the values alone
C14_FailedWriteIsContained ==
    [][/\ op'.name = "handleSave"
            => /\ \A f \in Settings :
                    /\ WrittenOrRefused(getStorageKey(Cur, f.id), currentDialog.inputs[f.id])
                    /\ MapGet(values', f.id) = currentDialog.inputs[f.id]
               /\ \A g \in Groups :
                    WrittenOrRefused(GroupStateKey(Cur, g.id), MapGet(groupStates, g.id))
               /\ groupStates' = groupStates
               /\ validationState' = validationState
               /\ HasCall(log', "onSettingsSaved")
               /\ log'[Len(log')] = CallEvent("onDialogClosed")
               /\ ~currentDialog'.open
       /\ op'.name = "toggleGroup"
            => /\ MapGet(groupStates', op'.id) = Bool(~currentDialog.expanded[op'.id])
               /\ WrittenOrRefused(GroupStateKey(Cur, op'.id),
                                   Bool(~currentDialog.expanded[op'.id]))
               /\ \A g \in Groups :
                    g.id # op'.id => /\ MapGet(groupStates', g.id) = MapGet(groupStates, g.id)
                                     /\ KeyUnchanged(GroupStateKey(Cur, g.id))
               /\ currentDialog'.open
               /\ currentDialog'.expanded[op'.id] = ~currentDialog.expanded[op'.id]
               /\ values' = values
               /\ validationState' = validationState]_vars

\* a commit in which the write of A threw: the key of A holds the old
\* value, R and G were written after it and onSettingsSaved was invoked
C14_Witness ==
    /\ op.name = "handleSave"
    /\ config = ConfigRadio
    /\ ErrorLogged(log, getStorageKey(Cur, "A"))
    /\ getStorageKey(Cur, "A") \in DOMAIN BoundStore
    /\ BoundStore[getStorageKey(Cur, "A")] # Serialized(MapGet(values, "A"))
    /\ \E i \in DOMAIN log :
         log[i] = WriteEvent(getStorageKey(Cur, "R"), Serialized(Str("y")))
    /\ \E i \in DOMAIN log :
         log[i] = WriteEvent(GroupStateKey(Cur, "G"), Serialized(MapGet(groupStates, "G")))
    /\ HasCall(log, "onSettingsSaved")

\* C15: of two sessions with distinct configuration identifiers, no
\* operation of one changes what a store holds for a key of the other
C15_SessionsDoNotInterfere ==
    [][IF op'.name \in OtherOps
       THEN \A key \in NamespaceKeys(Cur) : KeySame(key)
       ELSE \A key \in NamespaceKeys(other) : KeySame(key)]_vars

\* C16: a setFieldValue(id, value) on an initialized session invokes
\* onSettingChanged exactly once and leaves the groups and the fields that
\* id controls as the new value requires
C16_SetFieldValueReevaluates ==
    [][(op'.name = "setFieldValue" /\ isInitialized)
         => /\ Cardinality({i \in DOMAIN log' : log'[i] = CallEvent("onSettingChanged")}) = 1
            /\ \A g \in Groups :
                 (HasCond(g.collapsedIf) /\ g.collapsedIf.otherElementId = op'.id)
                   => MapGet(groupStates', g.id)
                        = Bool(MapGet(values', op'.id) # g.collapsedIf.value)
            /\ \A f \in Dependents :
                 (currentDialog'.open /\ f.enabledIf.otherElementId = op'.id)
                   => (~FieldDisabled(f)' <=> MapGet(values', op'.id) = f.enabledIf.value)]_vars

\* C17: setFieldValue(id, value) writes nothing to either store and leaves
\* the value of every other field, the group states, the validation state
\* and the dialog as they were
C17_SetFieldValueFrame ==
    [][op'.name = "setFieldValue"
         => /\ StoresUnchanged
            /\ log' = <<>>
            /\ \A f \in Settings :
                 f.id # op'.id => MapGet(values', f.id) = MapGet(values, f.id)
            /\ groupStates' = groupStates
            /\ validationState' = validationState
            /\ currentDialog' = currentDialog]_vars

\* A was set to true: nothing is stored for it, and H, collapsed when A is
\* false, still has the state it was given when A was false
C17_Witness ==
    /\ op = [name |-> "setFieldValue", id |-> "A"]
    /\ config = ConfigScenario
    /\ isInitialized
    /\ MapGet(values, "A") = JTrue
    /\ MapGet(groupStates, "H") = JFalse
    /\ getStorageKey(Cur, "A") \notin DOMAIN BoundStore

\* C18: after resetToDefaults() on an initialized session the value store
\* holds the defaultValue of every field
C18_ResetGivesDefaults ==
    (op.name = "resetToDefaults" /\ isInitialized)
      => \A f \in Settings : MapGet(values, f.id) = f.defaultValue

\* a reset over a store that holds another value for P, with a dialog open
\* in which D was edited
C18_Witness ==
    /\ op.name = "resetToDefaults"
    /\ isInitialized
    /\ config = ConfigKinds
    /\ getStorageKey(Cur, "P") \in DOMAIN BoundStore
    /\ BoundStore[getStorageKey(Cur, "P")] = Serialized(Str("true"))
    /\ currentDialog.open
    /\ currentDialog.inputs["D"] = Str("x")
    /\ MapGet(values, "P") = Str("abc")

\* C19: after resetToDefaults() on an initialized session a group without
\* collapsedIf has its configured expanded (true when none is configured),
\* whatever the store holds for it, and a group with collapsedIf has the
\* state the reset values give it
C19_ResetGivesDefaultExpansion ==
    (op.name = "resetToDefaults" /\ isInitialized)
      => \A g \in Groups :
           MapGet(groupStates, g.id) =
               IF HasCond(g.collapsedIf)
               THEN Bool(getFieldValue(Cur, g.collapsedIf.otherElementId)
                           # g.collapsedIf.value)
               ELSE DefaultExpanded(g)

\* C20: resetToDefaults() issues no write and leaves both stores as they
\* were
C20_ResetWritesNothing ==
    [][op'.name = "resetToDefaults" => StoresUnchanged /\ ~HasWrite(log')]_vars

\* a reset on a session whose store holds true for A: the value of A is
\* false again and the store still holds true
C20_Witness ==
    /\ op.name = "resetToDefaults"
    /\ isInitialized
    /\ config = ConfigScenario
    /\ getStorageKey(Cur, "A") \in DOMAIN BoundStore
    /\ BoundStore[getStorageKey(Cur, "A")] = Serialized(JTrue)
    /\ MapGet(values, "A") = JFalse

\* C21: init() on a malformed configuration fails: the session is never
\* initialized and onSettingsLoaded is never invoked
C21_MalformedSchemaIsRejected ==
    config \in MalformedConfigs => ~isInitialized /\ ~HasCall(log, "onSettingsLoaded")

\* C22: before init(), readFromStore, writeToStorage, resetToDefaults,
\* setFieldValue and openSettingsDialog leave the value store, the group
\* states, the validation state and both stores as they were, open no
\* dialog and invoke no callback
BeforeInitOps ==
    {"readFromStore", "writeToStorage", "resetToDefaults", "setFieldValue",
     "openSettingsDialog"}

C22_NoOpBeforeInit ==
    [][(~isInitialized /\ op'.name \in BeforeInitOps)
         => /\ values' = values
            /\ groupStates' = groupStates
            /\ validationState' = validationState
            /\ StoresUnchanged
            /\ ~currentDialog'.open
            /\ log' = <<>>
            /\ ~isInitialized']_vars

\* openSettingsDialog was called on a new session, before init(), over a
\* store that holds values committed earlier
C22_Witness ==
    /\ op.name = "openSettingsDialog"
    /\ ~isInitialized
    /\ values = EmptyMap
    /\ ~currentDialog.open
    /\ gmStore # EmptyStore \/ localStorage # EmptyStore

\* C23: an init() invokes onSettingsLoaded exactly once, and what the
\* callback finds is an initialized session whose value store has an entry
\* for every field and whose group states have an entry for every group,
\* the entries init() returns with
C23_LoadedOnceAfterLoading ==
    op.name = "init"
      => /\ Cardinality(Calls(log, "onSettingsLoaded")) = 1
         /\ \A seen \in Seen(log, "onSettingsLoaded") :
              /\ seen.isInitialized
              /\ SettingIds(config) \subseteq MapKeys(seen.values)
              /\ GroupIds(config) \subseteq MapKeys(seen.groupStates)
              /\ seen.values = values
              /\ seen.groupStates = groupStates

\* onSettingsLoaded found the value true that the store holds for A, and a
\* state for both groups
C23_Witness ==
    /\ op.name = "init"
    /\ config = ConfigScenario
    /\ getStorageKey(Cur, "A") \in DOMAIN BoundStore
    /\ BoundStore[getStorageKey(Cur, "A")] = Serialized(JTrue)
    /\ \E seen \in Seen(log, "onSettingsLoaded") :
         /\ MapGet(seen.values, "A") = JTrue
         /\ MapKeys(seen.groupStates) = {"G", "H"}

\* C24: a commit invokes onSettingsSaved exactly once, after the write of
\* every field key and every group key has been issued, while the dialog is
\* still open, and before onDialogClosed
C24_SavedAfterWritesBeforeClose ==
    op.name = "handleSave"
      => \E i \in DOMAIN log :
           /\ Calls(log, "onSettingsSaved") = {i}
           /\ \A key \in FieldKeys \cup GroupKeys :
                \E j \in 1..(i - 1) : log[j].e = "write" /\ log[j].k = key
           /\ \A j \in DOMAIN log : log[j].e = "write" => j < i
           /\ \A seen \in Seen(log, "onSettingsSaved") : seen.currentDialog.open
           /\ Calls(log, "onDialogClosed") # {}
           /\ \A j \in Calls(log, "onDialogClosed") : j > i
           /\ \A seen \in Seen(log, "onDialogClosed") : ~seen.currentDialog.open

\* a commit of the scenario: onSettingsSaved found the dialog open, showing
\* the text that had just been written for B
C24_Witness ==
    /\ op.name = "handleSave"
    /\ config = ConfigScenario
    /\ \E j \in DOMAIN log :
         log[j] = WriteEvent(getStorageKey(Cur, "B"), Serialized(Str("abc")))
    /\ \E seen \in Seen(log, "onSettingsSaved") :
         /\ seen.currentDialog.open
         /\ seen.currentDialog.inputs["B"] = Str("abc")
         /\ MapGet(seen.values, "B") = Str("abc")

\* C25: a step invokes onDialogClosed once when it removes an open dialog
\* (a commit, a cancel, Escape, closeDialog, or an openSettingsDialog that
\* replaces it) and not at all otherwise
C25_ClosedOncePerRemoval ==
    [][Cardinality(Calls(log', "onDialogClosed")) =
           IF /\ currentDialog.open
              /\ \/ op'.name \in {"handleSave", "handleCancel", "escape", "closeDialog"}
                 \/ op'.name = "openSettingsDialog" /\ isInitialized
           THEN 1
           ELSE 0]_vars

\* C26: while the dialog is open its Save button is disabled exactly when
\* some entry of the validation state is false, whatever class names the
\* configuration gives the buttons
C26_SaveDisabledIffInvalid ==
    currentDialog.open => (currentDialog.saveDisabled <=> ~CanCommit)

\* C27: the scenario of checkbox A (default false) and textbox B (default
\* "", enabled when A is true, pattern ^[a-z]{3,}$) over an empty store.
\* After init() B is not enabled and canCommit() is true, and so in the
\* dialog opened next; when the user checks A, B is enabled and invalid and
\* canCommit() is false; when the user then types abc into B, canCommit()
\* is true; after the commit the key of B holds abc
InScenario ==
    /\ config.settings = ScenarioSettings
    /\ (FieldKeys \cup GroupKeys) \cap (DOMAIN gmStore \cup DOMAIN localStorage) = {}

C27_Scenario ==
    [][InScenario
         => /\ (op'.name = "init" /\ ~currentDialog.open)
                 => ~IsFieldEnabled(ScenarioSettings[2])' /\ CanCommit'
            /\ (/\ op'.name = "openSettingsDialog" /\ isInitialized
                /\ \A f \in Settings : MapGet(values, f.id) = f.defaultValue)
                 => FieldDisabled(ScenarioSettings[2])' /\ CanCommit'
            /\ (/\ op' = [name |-> "edit", id |-> "A"]
                /\ currentDialog'.inputs["A"] = JTrue)
                 => /\ ~FieldDisabled(ScenarioSettings[2])'
                    /\ ~IsFieldValid("B")'
                    /\ ~CanCommit'
            /\ (/\ op' = [name |-> "edit", id |-> "B"]
                /\ currentDialog'.inputs["B"] = Str("abc"))
                 => IsFieldValid("B")' /\ CanCommit'
            /\ (/\ op'.name = "handleSave"
                /\ currentDialog.inputs["B"] = Str("abc"))
                 => /\ getStorageKey(Cur, "B") \in DOMAIN BoundStore'
                    /\ BoundStore'[getStorageKey(Cur, "B")] = Serialized(Str("abc"))]_vars

\* over the empty store and the default values the user has checked A and
\* typed abc into B: the commit is allowed and nothing is stored yet
C27_Witness ==
    /\ op = [name |-> "edit", id |-> "B"]
    /\ InScenario
    /\ MapGet(values, "A") = JFalse
    /\ MapGet(values, "B") = Str("")
    /\ currentDialog.inputs["A"] = JTrue
    /\ currentDialog.inputs["B"] = Str("abc")
    /\ ~FieldDisabled(ScenarioSettings[2])
    /\ CanCommit

\* C28: a field without enabledIf is enabled in every reachable state
C28_UnconditionalFieldsEnabled ==
    \A f \in Settings :
        ~HasCond(f.enabledIf)
          => /\ IsFieldEnabled(f)
             /\ currentDialog.open => ~currentDialog.disabled[f.id]

\* the user has unchecked A in the open dialog: B is disabled, A is not
C28_Witness ==
    /\ op = [name |-> "edit", id |-> "A"]
    /\ config = ConfigScenario
    /\ currentDialog.inputs["A"] = JFalse
    /\ FieldDisabled(ScenarioSettings[2])
    /\ ~FieldDisabled(ScenarioSettings[1])
    /\ FieldKeys \subseteq DOMAIN BoundStore

\* C29: when an edit changes the value of a field that has a pattern, or
\* the enabled state of such a field, of whatever type, the entry of the
\* field in the validation state says whether its value matches the
\* pattern or the field is disabled, and onSettingChanged finds it so
C29_ValidationFollowsEdits ==
    [][op'.name = "edit"
         => \A f \in Settings :
              (/\ f.validationRegex # ""
               /\ \/ f.id = op'.id
                  \/ HasCond(f.enabledIf) /\ f.enabledIf.otherElementId = op'.id)
                => /\ IsFieldValid(f.id)'
                      <=> \/ RegExpTest(f.validationRegex,
                                        JsString(currentDialog'.inputs[f.id]).v)
                          \/ FieldDisabled(f)'
                   /\ \A seen \in Seen(log', "onSettingChanged") :
                        MapGet(seen.validationState, f.id)
                          = MapGet(validationState', f.id)]_vars

\* C30: an edit of a field invokes onSettingChanged once, and what the
\* callback finds is the dialog and the validation state the edit ends
\* with: the new value, every field enabled when the edited field has a
\* given value disabled or not as the new value requires and valid or not
\* accordingly, and every group collapsed by the edited field shown as the
\* new value requires
C30_ChangedSeesUpdatedState ==
    [][op'.name = "edit"
         => /\ Cardinality(Calls(log', "onSettingChanged")) = 1
            /\ \A seen \in Seen(log', "onSettingChanged") :
                 LET shown == seen.currentDialog
                     newValue == currentDialog'.inputs[op'.id]
                 IN  /\ shown = currentDialog'
                     /\ seen.validationState = validationState'
                     /\ \A f \in Dependents :
                          f.enabledIf.otherElementId = op'.id
                            => /\ shown.disabled[f.id] = (newValue # f.enabledIf.value)
                               /\ f.validationRegex # ""
                                    => MapGet(seen.validationState, f.id)
                                         = (\/ RegExpTest(f.validationRegex,
                                                          JsString(shown.inputs[f.id]).v)
                                            \/ shown.disabled[f.id])
                     /\ \A g \in Groups :
                          (/\ HasCond(g.collapsedIf)
                           /\ g.collapsedIf.otherElementId = op'.id
                           /\ g.id \in DOMAIN shown.expanded)
                            => shown.expanded[g.id] = (newValue # g.collapsedIf.value)]_vars

\* the user checked A: onSettingChanged found B enabled and invalid and
\* the group H expanded
C30_Witness ==
    /\ op = [name |-> "edit", id |-> "A"]
    /\ config = ConfigScenario
    /\ \E seen \in Seen(log, "onSettingChanged") :
         /\ seen.currentDialog.inputs["A"] = JTrue
         /\ ~seen.currentDialog.disabled["B"]
         /\ MapGet(seen.validationState, "B") = FALSE
         /\ seen.currentDialog.expanded["H"]

TypeAwareEquals(a, b) == JsString(a) = JsString(b)
BooleanControllers == {f.id : f \in {x \in Settings : x.type = "checkbox"}}

\* C32: enablement and group collapse compare the controller's current
\* value with the required value by type-aware equality: after an edit of
\* a checkbox, a field required to see true or "true" is enabled exactly
\* when the box is checked, and a group collapsed on false or "false" is
\* collapsed exactly when it is not.
C32_TypeAwareEquality ==
    [][(op'.name = "edit" /\ op'.id \in BooleanControllers /\ currentDialog'.open) =>
         /\ \A f \in Dependents :
                f.enabledIf.otherElementId = op'.id =>
                    (~currentDialog'.disabled[f.id]
                       <=> TypeAwareEquals(currentDialog'.inputs[op'.id], f.enabledIf.value))
         /\ \A g \in Groups :
                (g.collapsedIf.otherElementId = op'.id
                 /\ g.id \in DOMAIN currentDialog'.expanded) =>
                    (~currentDialog'.expanded[g.id]
                       <=> TypeAwareEquals(currentDialog'.inputs[op'.id],
                                           g.collapsedIf.value))]_vars

RoundTripKeys == FieldKeys \cup GroupKeys \cup {getStorageKey(Cur, "fresh")}
Fallbacks == {JTrue, JFalse, Str(""), Str("abc"), Undefined}

\* C33: on the backend the session is bound to, writing a boolean under
\* any key and reading the key back gives that boolean, not the string
\* that spells it, whatever fallback the read is given and whatever the
\* stores held before.
C33_BooleanRoundTrip ==
    isInitialized =>
        \A b \in {JTrue, JFalse} : \A key \in RoundTripKeys : \A fallback \in Fallbacks :
            getValueFromStorage(setValueIntoStorage(Cur, key, b), key, fallback) = b

\* init() has read, as the boolean true, the checkbox the browser-local
\* store keeps as the string "true"
C33_Witness ==
    /\ config = ConfigScenario
    /\ op.name = "init"
    /\ storageFns = "localStorage"
    /\ getStorageKey(Cur, "A") \in DOMAIN localStorage
    /\ localStorage[getStorageKey(Cur, "A")] = Str("true")
    /\ getFieldValue(Cur, "A") = JTrue

\* C34: the persistence backend is chosen once: an init() of a session
\* that is already bound to a backend leaves it bound to that backend,
\* even if the host API has appeared or gone since.
C34_BackendChosenOnce ==
    [][(op'.name = "init" /\ storageFns # "null") => storageFns' = storageFns]_vars

\* C35: the lifecycle is Uninitialized -> Ready -> (Editing <-> Ready): a
\* dialog is open only in an initialized session, at most one dialog
\* element of the session is in the document, and no operation on a
\* session takes it from initialized back to uninitialized.
C35_Lifecycle ==
    [][/\ currentDialog'.open => isInitialized'
       /\ dialogsInBody' <= 1
       /\ (dialogsInBody' = 1) <=> currentDialog'.open
       /\ (isInitialized /\ op'.name # "constructor") => isInitialized']_vars

\* openSettingsDialog() was called over an open dialog: the session is
\* still editing, with one dialog in the document
C35_Witness ==
    /\ op.name = "openSettingsDialog"
    /\ isInitialized
    /\ currentDialog.open
    /\ listeners = 2
    /\ dialogsInBody = 1

\* C36: when openSettingsDialog() has returned, every field with enabledIf
\* {c, v} is enabled exactly when the value the dialog shows for c is v,
\* in whatever order the two fields are declared and whatever values were
\* loaded or set before.
C36_OpenEvaluatesConditions ==
    (op.name = "openSettingsDialog" /\ currentDialog.open) =>
        \A f \in Dependents :
            f.enabledIf.otherElementId \in DOMAIN currentDialog.inputs =>
                (~currentDialog.disabled[f.id]
                   <=> currentDialog.inputs[f.enabledIf.otherElementId] = f.enabledIf.value)

\* C37: toggleGroup(h) changes the displayed state of group h and of no
\* other group, a group governed by collapsedIf whose controlling field
\* was edited in the open dialog included.
C37_ToggleChangesOneGroup ==
    [][(op'.name = "toggleGroup" /\ currentDialog.open /\ currentDialog'.open) =>
         \A g \in DOMAIN currentDialog.expanded :
             g # op'.id => currentDialog'.expanded[g] = currentDialog.expanded[g]]_vars

\* C38: the session has one keydown listener on the document while a
\* dialog is open and none otherwise, whatever sequence of opening,
\* saving, cancelling and closing led there.
C38_OneListenerWhileOpen ==
    listeners = (IF currentDialog.open THEN 1 ELSE 0)

\* C39: after init() the value store holds exactly the identifiers of the
\* schema's fields, and a commit writes one storage key for each of them
\* and no key for any other identifier.
C39_ValueStoreHoldsSchemaIds ==
    /\ isInitialized => MapKeys(values) = SettingIds(config)
    /\ (op.name \in {"handleSave", "writeToStorage"} /\ isInitialized) =>
           \A i \in DOMAIN log :
               log[i].e = "write" => log[i].k \in FieldKeys \cup GroupKeys

====
